---- MODULE Spec2Model ----
(***************************************************************************)
(* Dual-key stealth addresses (src/index.ts).                              *)
(*                                                                         *)
(* Hex strings are sequences of one-character strings, at their real       *)
(* widths.  Big integers are sequences of base-16 digits, most significant *)
(* first, without leading zeros (zero is the empty sequence).              *)
(*                                                                         *)
(* The curve library is modelled in the discrete-log representation: the   *)
(* point k*G is named by k, its compressed encoding is 02 || k and its      *)
(* uncompressed encoding is 04 || k || k; the point at infinity is k = 0.   *)
(* keccak256 is a lazily sampled function: the first query of an input     *)
(* draws its digest from Digests, later queries return the same digest.    *)
(***************************************************************************)
EXTENDS Integers, Sequences, FiniteSets, TLC

VARIABLES hashSeed, hashSecret, derived, bundle, ann, ret

vars == <<hashSeed, hashSecret, derived, bundle, ann, ret>>

-----------------------------------------------------------------------------
(* Strings *)

HexDigits == <<"0","1","2","3","4","5","6","7","8","9","a","b","c","d","e","f">>

HexChars == {HexDigits[d] : d \in 1..16}

HexValues == [c \in HexChars |-> (CHOOSE d \in 1..16 : HexDigits[d] = c) - 1]

IsHexChar(c) == c \in HexChars

HexVal(c) == HexValues[c]

IsHex(s) == \A i \in 1..Len(s) : IsHexChar(s[i])

Rep(c, k) == [i \in 1..k |-> c]

Prefix0x == <<"0","x">>

MinOf(a, b) == IF a < b THEN a ELSE b

MaxOf(a, b) == IF a > b THEN a ELSE b

\* String.prototype.slice index normalisation: negative counts from the end.
JsIndex(len, i) == IF i < 0 THEN MaxOf(len + i, 0) ELSE MinOf(i, len)

\* s.slice(start, end), 0-based, end exclusive.
Slice(s, start, end) ==
    LET from == JsIndex(Len(s), start)
        to   == JsIndex(Len(s), end)
    IN  IF to <= from THEN <<>> ELSE SubSeq(s, from + 1, to)

\* s.slice(start)
SliceFrom(s, start) ==
    LET from == JsIndex(Len(s), start)
    IN  IF Len(s) <= from THEN <<>> ELSE SubSeq(s, from + 1, Len(s))

\* s.substring(start, end): negatives clamp to 0, arguments swap when start > end.
Substring(s, start, end) ==
    LET a == MinOf(MaxOf(start, 0), Len(s))
        b == MinOf(MaxOf(end, 0), Len(s))
    IN  IF a = b THEN <<>> ELSE SubSeq(s, MinOf(a, b) + 1, MaxOf(a, b))

\* s.padStart(width, c)
PadStart(s, width, c) == IF Len(s) >= width THEN s ELSE Rep(c, width - Len(s)) \o s

-----------------------------------------------------------------------------
(* Big integers *)

\* ds without its leading zeros
Strip(ds) ==
    IF \A i \in 1..Len(ds) : ds[i] = 0
    THEN <<>>
    ELSE SubSeq(ds, CHOOSE i \in 1..Len(ds) : ds[i] # 0 /\ \A j \in 1..(i - 1) : ds[j] = 0,
                Len(ds))

\* BigInt("0x...")
BigInt(hex) == Strip([i \in 1..(Len(hex) - 2) |-> HexVal(hex[i + 2])])

\* digit k of ds counted from the least significant one (k = 0)
DigitAt(ds, k) == IF k < Len(ds) THEN ds[Len(ds) - k] ELSE 0

\* the carry into digit k of a + b: some lower digit overflows and every digit
\* between passes the carry on
Carry(a, b, k) ==
    \E j \in 0..(k - 1) :
        /\ DigitAt(a, j) + DigitAt(b, j) >= 16
        /\ \A i \in (j + 1)..(k - 1) : DigitAt(a, i) + DigitAt(b, i) = 15

BigAdd(a, b) ==
    LET n == MaxOf(Len(a), Len(b)) + 1
    IN  Strip([i \in 1..n |->
                 LET k == n - i
                 IN  (DigitAt(a, k) + DigitAt(b, k)
                        + (IF Carry(a, b, k) THEN 1 ELSE 0)) % 16])

BigLess(a, b) ==
    \/ Len(a) < Len(b)
    \/ /\ Len(a) = Len(b)
       /\ \E i \in 1..Len(a) : a[i] < b[i] /\ \A j \in 1..(i - 1) : a[j] = b[j]

\* the borrow out of digit k - 1 of a - b
Borrow(a, b, k) ==
    \E j \in 0..(k - 1) :
        /\ DigitAt(a, j) < DigitAt(b, j)
        /\ \A i \in (j + 1)..(k - 1) : DigitAt(a, i) = DigitAt(b, i)

\* a - b for a >= b
BigSub(a, b) ==
    Strip([i \in 1..Len(a) |->
             LET k == Len(a) - i
             IN  (DigitAt(a, k) - DigitAt(b, k)
                    - (IF Borrow(a, b, k) THEN 1 ELSE 0) + 16) % 16])

\* a % m for a >= 0, m > 0
RECURSIVE BigMod(_, _)
BigMod(a, m) == IF BigLess(a, m) THEN a ELSE BigMod(BigSub(a, m), m)

\* x.toString(16)
ToString16(ds) == IF ds = <<>> THEN <<"0">> ELSE [i \in 1..Len(ds) |-> HexDigits[ds[i] + 1]]

-----------------------------------------------------------------------------
(* Results of calls that may throw *)

Ok(v) == [ok |-> TRUE, val |-> v, err |-> ""]

Throw(e) == [ok |-> FALSE, val |-> <<>>, err |-> e]

-----------------------------------------------------------------------------
(* Curve library (@noble/secp256k1) and hash, as used by src/index.ts *)

\* CURVE.n, the group order, as 64 hex characters
CurveOrderHex ==
    Rep("f", 31) \o
    <<"e","b","a","a","e","d","c","e","6","a","f","4","8","a","0","3","b",
      "b","f","d","2","5","e","8","c","d","0","3","6","4","1","4","1">>

CurveOrder == BigInt(Prefix0x \o CurveOrderHex)

\* number of hex characters of a 32-byte scalar, digest or coordinate
ScalarChars == 64

\* the 64-character big-endian form of an integer below 2^256
Digits64(k) == PadStart(ToString16(k), ScalarChars, "0")

\* toPriv: a private key is 32 bytes naming a scalar in 1 .. n-1
ValidScalar(priv) ==
    /\ Len(priv) = 2 + ScalarChars
    /\ SubSeq(priv, 1, 2) = Prefix0x
    /\ IsHex(SliceFrom(priv, 2))
    /\ LET k == BigInt(priv) IN k # <<>> /\ BigLess(k, CurveOrder)

\* ProjectivePoint.fromPrivateKey: the point k*G, named by the 64 digits of k
fromPrivateKey(priv) ==
    IF ValidScalar(priv) THEN Ok(SliceFrom(priv, 2)) ELSE Throw("private key out of range")

\* ProjectivePoint.fromHex on a compressed encoding without the 0x prefix
fromHex(hex) ==
    IF /\ Len(hex) = 2 + ScalarChars
       /\ SubSeq(hex, 1, 2) = <<"0","2">>
       /\ ValidScalar(Prefix0x \o SliceFrom(hex, 2))
    THEN Ok(SliceFrom(hex, 2))
    ELSE Throw("Point is not on curve")

\* bytesToHex(point.toRawBytes(true))
toCompressed(point) == Prefix0x \o <<"0","2">> \o point

\* bytesToHex(point.toRawBytes(false)); the point at infinity encodes as zeros
toUncompressed(point) == Prefix0x \o <<"0","4">> \o point \o point

\* point.add(other)
pointAdd(p, q) ==
    Digits64(BigMod(BigAdd(BigInt(Prefix0x \o p), BigInt(Prefix0x \o q)), CurveOrder))

\* bytesToHex(getPublicKey(priv, true))
getPublicKey(priv) ==
    LET p == fromPrivateKey(priv)
    IN  IF p.ok THEN Ok(toCompressed(p.val)) ELSE p

\* Mutant of getSharedSecret: the two sides do not arrive at the same point.
getSharedSecretOrdered(priv, pub) ==
    LET p == fromHex(SliceFrom(pub, 2))
    IN  IF ~p.ok THEN p
        ELSE IF ~ValidScalar(priv) THEN Throw("private key out of range")
        ELSE Ok(<<SliceFrom(priv, 2), p.val>>)

\* getSharedSecret(priv, pub): the compressed point priv * pub.  The point
\* e*v*G is named by the unordered pair of its two scalars.
getSharedSecret(priv, pub) ==
    LET p == fromHex(SliceFrom(pub, 2))
    IN  IF ~p.ok THEN p
        ELSE IF ~ValidScalar(priv) THEN Throw("private key out of range")
        ELSE Ok({SliceFrom(priv, 2), p.val})

\* viem publicKeyToAddress: the hash of the uncompressed key without its 04 byte
publicKeyToAddress(publicKey) == [addressOf |-> Substring(publicKey, 4, Len(publicKey))]

\* viem privateKeyToAccount(privateKey).address: the address of the public key
\* privateKey * G; a key outside 1 .. n-1 is refused
privateKeyToAccount(privateKey) ==
    LET p == fromPrivateKey(privateKey)
    IN  IF p.ok THEN Ok(publicKeyToAddress(toUncompressed(p.val))) ELSE p

\* keccak256 memo table k extended by the digest d drawn for a first query of x
Memo(k, x, d) == IF x \in DOMAIN k THEN k ELSE (x :> d) @@ k

-----------------------------------------------------------------------------
(* src/index.ts *)

startIndex == 2

length == 64

\* Mutant of extractPortions: the last byte is whatever follows the portions.
extractPortionsRest(signature) ==
    [portion1 |-> Slice(signature, startIndex, startIndex + length),
     portion2 |-> Slice(signature, startIndex + length, startIndex + length + length),
     lastByte |-> SliceFrom(signature, startIndex + length + length)]

extractPortions(signature) ==
    [portion1 |-> Slice(signature, startIndex, startIndex + length),
     portion2 |-> Slice(signature, startIndex + length, startIndex + length + length),
     lastByte |-> SliceFrom(signature, Len(signature) - 2)]

generateStealthMetaAddressFromKeys(spendingPublicKey, viewingPublicKey) ==
    Prefix0x \o SliceFrom(spendingPublicKey, 2) \o SliceFrom(viewingPublicKey, 2)

SeedError == "Signature incorrectly generated or parsed"

\* Mutant of seedPreimages: both keys are hashed from the first portion.
seedPreimagesSame(signature) ==
    LET p == extractPortions(signature)
    IN  <<Prefix0x \o p.portion1, Prefix0x \o p.portion1>>

\* Mutant of seedPreimages: the viewing key's preimage runs to the end of the
\* signature.
seedPreimagesLastByte(signature) ==
    LET p == extractPortions(signature)
    IN  <<Prefix0x \o p.portion1, Prefix0x \o p.portion2 \o p.lastByte>>

\* the two keccak256 inputs of generateStealthKeyFromSignature
seedPreimages(signature) ==
    LET p == extractPortions(signature)
    IN  <<Prefix0x \o p.portion1, Prefix0x \o p.portion2>>

\* k is the keccak256 table, holding the digests of both portions
generateStealthKeyFromSignature(k, signature) ==
    LET p == extractPortions(signature)
    IN  IF Prefix0x \o p.portion1 \o p.portion2 \o p.lastByte # signature
        THEN Throw(SeedError)
        ELSE LET spendingPrivateKey == k[seedPreimages(signature)[1]]
                 viewingPrivateKey  == k[seedPreimages(signature)[2]]
                 spendingPublicKey  == getPublicKey(spendingPrivateKey)
                 viewingPublicKey   == getPublicKey(viewingPrivateKey)
             IN  IF ~spendingPublicKey.ok THEN spendingPublicKey
                 ELSE IF ~viewingPublicKey.ok THEN viewingPublicKey
                 ELSE Ok([spendingKey |-> [publicKey  |-> spendingPublicKey.val,
                                           privateKey |-> spendingPrivateKey],
                          viewingKey  |-> [publicKey  |-> viewingPublicKey.val,
                                           privateKey |-> viewingPrivateKey]])

MetaSplit == 68

\* Mutant of parseKeysFromStealthMetaAddress: the split ignores the 0x prefix.
parseKeysSplit66(stealthMeta) ==
    [spendingPublicKey |-> Prefix0x \o Slice(stealthMeta, 2, MetaSplit - 2),
     viewingPublicKey  |-> Prefix0x \o SliceFrom(stealthMeta, MetaSplit - 2)]

parseKeysFromStealthMetaAddress(stealthMeta) ==
    [spendingPublicKey |-> Prefix0x \o Slice(stealthMeta, 2, MetaSplit),
     viewingPublicKey  |-> Prefix0x \o SliceFrom(stealthMeta, MetaSplit)]

getViewTag(hashSharedSecret) == Prefix0x \o Substring(hashSharedSecret, 2, 4)

getStealthPublicKey(spendingPublicKey, hashSharedSecret) ==
    LET hashedSharedSecretPoint == fromPrivateKey(hashSharedSecret)
        spendingPoint           == fromHex(SliceFrom(spendingPublicKey, 2))
    IN  IF ~hashedSharedSecretPoint.ok THEN hashedSharedSecretPoint
        ELSE IF ~spendingPoint.ok THEN spendingPoint
        ELSE Ok(toUncompressed(pointAdd(spendingPoint.val, hashedSharedSecretPoint.val)))

\* The shared secret of generateStealthAddress, from the drawn ephemeral key
generatorSecret(ephemeralPrivateKey, stealthMeta) ==
    LET viewingPoint == fromHex(SliceFrom(stealthMeta.viewingPublicKey, 2))
    IN  IF ~viewingPoint.ok THEN viewingPoint
        ELSE getSharedSecret(ephemeralPrivateKey, toCompressed(viewingPoint.val))

\* ephemeralPrivateKey is the value of utils.randomPrivateKey(); k is the
\* keccak256 table, holding the digest of the shared secret
generateStealthAddress(k, ephemeralPrivateKey, stealthMeta) ==
    LET ephemeralPublicKey == getPublicKey(ephemeralPrivateKey)
        sharedSecret       == generatorSecret(ephemeralPrivateKey, stealthMeta)
    IN  IF ~ephemeralPublicKey.ok THEN ephemeralPublicKey
        ELSE IF ~sharedSecret.ok THEN sharedSecret
        ELSE LET hashSharedSecret    == k[sharedSecret.val]
                 viewTag             == getViewTag(hashSharedSecret)
                 newStealthPublicKey ==
                     getStealthPublicKey(stealthMeta.spendingPublicKey, hashSharedSecret)
             IN  IF ~newStealthPublicKey.ok THEN newStealthPublicKey
                 ELSE Ok([stealthPublicKey   |-> publicKeyToAddress(newStealthPublicKey.val),
                          ephemeralPublicKey |-> ephemeralPublicKey.val,
                          viewTag            |-> viewTag])

addPriv(a, b) == BigMod(BigAdd(a, b), CurveOrder)

PadWidth == 64

\* Mutant of computeStealthPrivateKey: the result is not padded.
computeStealthPrivateKeyNoPad(k, stealthKey, ephemeralPublicKey) ==
    LET sharedSecret == getSharedSecret(stealthKey.viewingKey.privateKey, ephemeralPublicKey)
    IN  IF ~sharedSecret.ok THEN sharedSecret
        ELSE Ok(Prefix0x \o ToString16(addPriv(BigInt(stealthKey.spendingKey.privateKey),
                                               BigInt(k[sharedSecret.val]))))

computeStealthPrivateKey(k, stealthKey, ephemeralPublicKey) ==
    LET sharedSecret == getSharedSecret(stealthKey.viewingKey.privateKey, ephemeralPublicKey)
    IN  IF ~sharedSecret.ok THEN sharedSecret
        ELSE LET hashSharedSecret         == k[sharedSecret.val]
                 spendingPrivateKeyBigInt == BigInt(stealthKey.spendingKey.privateKey)
                 hashedSecretBigInt       == BigInt(hashSharedSecret)
                 stealthPrivateKeyBigInt  ==
                     addPriv(spendingPrivateKeyBigInt, hashedSecretBigInt)
             IN  Ok(Prefix0x \o PadStart(ToString16(stealthPrivateKeyBigInt), PadWidth, "0"))

\* Mutant of checkStealthAddress: a matching view tag is taken as proof.
checkStealthAddressTagOnly(k, stealthAddress, ephemeralPublicKey, spendingPublicKey, viewingPrivateKey, viewTag) ==
    LET sharedSecret == getSharedSecret(viewingPrivateKey, ephemeralPublicKey)
    IN  IF ~sharedSecret.ok
        THEN [ok |-> FALSE, val |-> FALSE, err |-> sharedSecret.err,
              calls |-> <<"getSharedSecret">>]
        ELSE [ok |-> TRUE, val |-> (getViewTag(k[sharedSecret.val]) = viewTag), err |-> "",
              calls |-> <<"getSharedSecret", "keccak256", "getViewTag">>]

\* Mutant of checkStealthAddress: the stealth point is computed before the
\* view tags are compared.
checkStealthAddressEager(k, stealthAddress, ephemeralPublicKey, spendingPublicKey, viewingPrivateKey, viewTag) ==
    LET sharedSecret == getSharedSecret(viewingPrivateKey, ephemeralPublicKey)
    IN  IF ~sharedSecret.ok
        THEN [ok |-> FALSE, val |-> FALSE, err |-> sharedSecret.err,
              calls |-> <<"getSharedSecret">>]
        ELSE LET hashSharedSecret    == k[sharedSecret.val]
                 newStealthPublicKey ==
                     getStealthPublicKey(spendingPublicKey, hashSharedSecret)
                 calls == <<"getSharedSecret", "keccak256", "getViewTag",
                            "getStealthPublicKey">>
             IN  IF ~newStealthPublicKey.ok
                 THEN [ok |-> FALSE, val |-> FALSE, err |-> newStealthPublicKey.err,
                       calls |-> calls]
                 ELSE [ok |-> TRUE,
                       val |-> /\ getViewTag(hashSharedSecret) = viewTag
                               /\ stealthAddress = publicKeyToAddress(newStealthPublicKey.val),
                       err |-> "",
                       calls |-> calls \o <<"publicKeyToAddress">>]

\* The result carries the sequence of calls made, in order.
checkStealthAddress(k, stealthAddress, ephemeralPublicKey, spendingPublicKey, viewingPrivateKey, viewTag) ==
    LET sharedSecret == getSharedSecret(viewingPrivateKey, ephemeralPublicKey)
    IN  IF ~sharedSecret.ok
        THEN [ok |-> FALSE, val |-> FALSE, err |-> sharedSecret.err,
              calls |-> <<"getSharedSecret">>]
        ELSE LET hashSharedSecret == k[sharedSecret.val]
                 computedViewTag  == getViewTag(hashSharedSecret)
             IN  IF computedViewTag # viewTag
                 THEN [ok |-> TRUE, val |-> FALSE, err |-> "",
                       calls |-> <<"getSharedSecret", "keccak256", "getViewTag">>]
                 ELSE LET newStealthPublicKey ==
                              getStealthPublicKey(spendingPublicKey, hashSharedSecret)
                          calls == <<"getSharedSecret", "keccak256", "getViewTag",
                                     "getStealthPublicKey">>
                      IN  IF ~newStealthPublicKey.ok
                          THEN [ok |-> FALSE, val |-> FALSE,
                                err |-> newStealthPublicKey.err, calls |-> calls]
                          ELSE [ok |-> TRUE,
                                val |-> (stealthAddress =
                                         publicKeyToAddress(newStealthPublicKey.val)),
                                err |-> "",
                                calls |-> calls \o <<"publicKeyToAddress">>]

-----------------------------------------------------------------------------
(* Inputs *)

\* 32-byte values: 0, 1, n - 1, n, 2^256 - 1 and two mid-range values
Zero32 == Prefix0x \o Rep("0", 64)

One32 == Prefix0x \o Rep("0", 63) \o <<"1">>

Two32 == Prefix0x \o Rep("0", 63) \o <<"2">>

OrderMinusOne32 == Prefix0x \o Digits64(BigSub(CurveOrder, <<1>>))

Order32 == Prefix0x \o CurveOrderHex

Max32 == Prefix0x \o Rep("f", 64)

MidA32 == Prefix0x \o <<"7","a">> \o Rep("3", 62)

MidB32 == Prefix0x \o <<"7","a">> \o Rep("5", 62)

\* the digests keccak256 may return for a shared secret: two valid scalars with
\* the same first byte, n - 1 and the out-of-range n
Digests == {One32, Two32, OrderMinusOne32, Order32}

\* the digests keccak256 may return for a signature portion
SeedDigests == {One32, MidA32, Order32}

\* the values utils.randomPrivateKey() may return (always in 1 .. n-1)
EphemeralKeys == {Two32, MidA32}

PortionA == Rep("1", 64)

PortionB == Rep("2", 64)

\* the recipient's seed signature
MainSignatures == {Prefix0x \o PortionA \o PortionB \o <<"1","b">>}

\* bound on the number of distinct shared secrets hashed in one run
MaxSecrets == 2

None == [ok |-> FALSE, val |-> <<>>, err |-> "none"]

-----------------------------------------------------------------------------
(* Operations *)

\* no call is in progress: the last result has been consumed
Idle == ret.op = "idle"

\* the digests a query of x may return: the one recorded, or any of ds for a
\* first query
Fresh(k, x, ds) == IF x \in DOMAIN k THEN {k[x]} ELSE ds

\* the digests hashing a shared secret may return; none is drawn when the
\* shared secret could not be computed
FreshSecret(secret) == IF secret.ok THEN Fresh(hashSecret, secret.val, Digests) ELSE {One32}

Init ==
    /\ hashSeed = <<>>
    /\ hashSecret = <<>>
    /\ derived = <<>>
    /\ bundle = None
    /\ ann = None
    /\ ret = [op |-> "idle", args |-> <<>>, out |-> None]

\* generateStealthKeyFromSignature(signature)
Derive(signatures) ==
    /\ Idle
    /\ \E signature \in signatures :
        \E d1 \in Fresh(hashSeed, seedPreimages(signature)[1], SeedDigests),
           d2 \in Fresh(hashSeed, seedPreimages(signature)[2], SeedDigests) :
        LET pre == seedPreimages(signature)
            k   == Memo(Memo(hashSeed, pre[1], d1), pre[2], d2)
            out == generateStealthKeyFromSignature(k, signature)
            hashed == out.err # SeedError
        IN  /\ hashSeed' = IF hashed THEN k ELSE hashSeed
            /\ derived' = IF hashed /\ signature \notin DOMAIN derived
                          THEN (signature :> out) @@ derived
                          ELSE derived
            /\ bundle' = IF out.ok THEN out ELSE bundle
            /\ ret' = [op |-> "derive", args |-> <<signature>>, out |-> out]
            /\ UNCHANGED <<hashSecret, ann>>

\* main: the meta-address is encoded from the bundle's public keys and parsed back
MetaOf(stealthKey) ==
    parseKeysFromStealthMetaAddress(
        generateStealthMetaAddressFromKeys(stealthKey.spendingKey.publicKey,
                                           stealthKey.viewingKey.publicKey))

\* generateStealthAddress(parsedStealthKeys) for the current bundle
Generate ==
    /\ Idle
    /\ bundle.ok
    /\ \E ephemeralPrivateKey \in EphemeralKeys :
        LET stealthMeta == MetaOf(bundle.val)
            secret == generatorSecret(ephemeralPrivateKey, stealthMeta)
        IN
        \E d \in FreshSecret(secret) :
        LET k   == IF secret.ok THEN Memo(hashSecret, secret.val, d) ELSE hashSecret
            out == generateStealthAddress(k, ephemeralPrivateKey, stealthMeta)
        IN  /\ Cardinality(DOMAIN k) <= MaxSecrets
            /\ hashSecret' = k
            /\ ann' = IF out.ok
                      THEN [ok |-> TRUE, val |-> out.val, err |-> "", key |-> bundle.val]
                      ELSE ann
            /\ ret' = [op |-> "generate", args |-> <<ephemeralPrivateKey, stealthMeta>>,
                       out |-> out]
            /\ UNCHANGED <<hashSeed, derived, bundle>>

OtherAddress == publicKeyToAddress(toUncompressed(SliceFrom(MidB32, 2)))

OtherPoint == toCompressed(SliceFrom(Two32, 2))

BadPoint == Prefix0x \o <<"0","5">> \o Rep("0", 64)

\* checkStealthAddress on an announcement, as generated or altered
Check ==
    /\ Idle
    /\ bundle.ok
    /\ ann.ok
    /\ \E stealthAddress \in {ann.val.stealthPublicKey, OtherAddress},
          ephemeralPublicKey \in {ann.val.ephemeralPublicKey, OtherPoint, BadPoint},
          spendingPublicKey \in {bundle.val.spendingKey.publicKey, OtherPoint},
          viewingPrivateKey \in {bundle.val.viewingKey.privateKey, MidB32},
          viewTag \in {ann.val.viewTag, <<"0","x","0","0">>, <<"0","x","f","f">>} :
        LET secret == getSharedSecret(viewingPrivateKey, ephemeralPublicKey) IN
        \E d \in FreshSecret(secret) :
        LET k   == IF secret.ok THEN Memo(hashSecret, secret.val, d) ELSE hashSecret
            out == checkStealthAddress(k, stealthAddress, ephemeralPublicKey,
                                       spendingPublicKey, viewingPrivateKey, viewTag)
        IN  /\ Cardinality(DOMAIN k) <= MaxSecrets
            /\ hashSecret' = k
            /\ ret' = [op |-> "check",
                       args |-> <<stealthAddress, ephemeralPublicKey, spendingPublicKey,
                                  viewingPrivateKey, viewTag>>,
                       out |-> out]
            /\ UNCHANGED <<hashSeed, derived, bundle, ann>>

\* computeStealthPrivateKey(stealthKey, ephemeralPublicKey) for the current bundle
RecoverOn(points) ==
    /\ Idle
    /\ bundle.ok
    /\ \E ephemeralPublicKey \in points :
        LET secret == getSharedSecret(bundle.val.viewingKey.privateKey, ephemeralPublicKey)
        IN
        \E d \in FreshSecret(secret) :
        LET k   == IF secret.ok THEN Memo(hashSecret, secret.val, d) ELSE hashSecret
            out == computeStealthPrivateKey(k, bundle.val, ephemeralPublicKey)
        IN  /\ Cardinality(DOMAIN k) <= MaxSecrets
            /\ hashSecret' = k
            /\ ret' = [op |-> "recover", args |-> <<bundle.val, ephemeralPublicKey>>,
                       out |-> out]
            /\ UNCHANGED <<hashSeed, derived, bundle, ann>>

Recover == ann.ok /\ RecoverOn({ann.val.ephemeralPublicKey, OtherPoint, BadPoint})

\* the caller consumes the last result
Return ==
    /\ ~Idle
    /\ ret' = [op |-> "idle", args |-> <<>>, out |-> None]
    /\ UNCHANGED <<hashSeed, hashSecret, derived, bundle, ann>>

Next ==
    \/ Derive(MainSignatures)
    \/ Generate
    \/ Check
    \/ Recover
    \/ Return

Spec == Init /\ [][Next]_vars

-----------------------------------------------------------------------------
(* Properties of Spec *)

\* the arguments of the last checkStealthAddress call
CheckArgs ==
    [stealthAddress     |-> ret.args[1],
     ephemeralPublicKey |-> ret.args[2],
     spendingPublicKey  |-> ret.args[3],
     viewingPrivateKey  |-> ret.args[4],
     viewTag            |-> ret.args[5]]

\* the last call checked the current announcement with its recipient's keys
GenuineCheck ==
    /\ ret.op = "check"
    /\ ann.ok
    /\ CheckArgs.stealthAddress = ann.val.stealthPublicKey
    /\ CheckArgs.ephemeralPublicKey = ann.val.ephemeralPublicKey
    /\ CheckArgs.viewTag = ann.val.viewTag
    /\ CheckArgs.spendingPublicKey = ann.key.spendingKey.publicKey
    /\ CheckArgs.viewingPrivateKey = ann.key.viewingKey.privateKey

\* C1: an announcement generated for a derived bundle's own meta-address
\* verifies true under that bundle's spending public key and viewing private key.
C1_Agreement == GenuineCheck => (ret.out.ok /\ ret.out.val = TRUE)

C1_Witness == GenuineCheck /\ ret.out.ok /\ ret.out.val = TRUE

\* the digest h' and the stealth address the verifier's inputs determine
CheckDigest ==
    hashSecret[getSharedSecret(CheckArgs.viewingPrivateKey,
                               CheckArgs.ephemeralPublicKey).val]

CheckTagRecomputed ==
    /\ ret.op = "check"
    /\ getSharedSecret(CheckArgs.viewingPrivateKey, CheckArgs.ephemeralPublicKey).ok

CheckTag == Prefix0x \o SubSeq(CheckDigest, 3, 4)

\* spendingPublicKey + h'*G exists: both are valid and the sum is computed
CheckPointDefined ==
    /\ CheckTagRecomputed
    /\ ValidScalar(CheckDigest)
    /\ fromHex(SliceFrom(CheckArgs.spendingPublicKey, 2)).ok

CheckPointAddress ==
    publicKeyToAddress(
        toUncompressed(pointAdd(SliceFrom(CheckArgs.spendingPublicKey, 4),
                                SliceFrom(CheckDigest, 2))))

\* the call returned true
CheckTrue == ret.op = "check" /\ ret.out.ok /\ ret.out.val = TRUE

\* the supplied address is the address of spendingPublicKey + h'*G
CheckAddressMatches ==
    CheckPointDefined /\ CheckArgs.stealthAddress = CheckPointAddress

\* the announcement passes the view-tag comparison but its address is not the
\* address of spendingPublicKey + h'*G
CheckCollision ==
    /\ CheckTagRecomputed
    /\ CheckArgs.viewTag = CheckTag
    /\ ~CheckAddressMatches

\* C3 as stated: checkStealthAddress returns true only if the supplied view
\* tag is the first byte of h' and the supplied address is the address of
\* spendingPublicKey + h'*G; an announcement whose tag matches but whose
\* address differs is answered false.
C3_AsStated ==
    /\ CheckTrue => (CheckArgs.viewTag = CheckTag /\ CheckAddressMatches)
    /\ CheckCollision => (ret.out.ok /\ ret.out.val = FALSE)

\* C3: checkStealthAddress returns true only if the supplied view tag is the
\* first byte of h' and the supplied address is the address of
\* spendingPublicKey + h'*G; an announcement whose tag matches but whose address
\* differs is answered false when h' is a scalar in 1 .. n-1, and otherwise
\* the call raises the scalar-range error of getStealthPublicKey.
C3_NoFalsePositive ==
    /\ CheckTrue => (CheckArgs.viewTag = CheckTag /\ CheckAddressMatches)
    /\ CheckCollision =>
          IF ValidScalar(CheckDigest)
          THEN IF fromHex(SliceFrom(CheckArgs.spendingPublicKey, 2)).ok
               THEN ret.out.ok /\ ret.out.val = FALSE
               ELSE ~ret.out.ok /\ ret.out.err = "Point is not on curve"
          ELSE ~ret.out.ok /\ ret.out.err = "private key out of range"

\* a one-byte collision: another viewing key's digest differs from the
\* generator's, shares its first byte, and the announcement is answered false
C3_Witness ==
    /\ CheckPointDefined
    /\ ann.ok
    /\ CheckArgs.stealthAddress = ann.val.stealthPublicKey
    /\ CheckArgs.viewingPrivateKey # ann.key.viewingKey.privateKey
    /\ CheckArgs.viewTag = ann.val.viewTag
    /\ CheckArgs.viewTag = CheckTag
    /\ CheckArgs.stealthAddress # CheckPointAddress
    /\ ret.out.ok /\ ret.out.val = FALSE

\* C7: when the recomputed view tag differs from the supplied one,
\* checkStealthAddress returns false without raising and without computing
\* the stealth point.
C7_FastPath ==
    (CheckTagRecomputed /\ CheckTag # CheckArgs.viewTag)
        => /\ ret.out.ok
           /\ ret.out.val = FALSE
           /\ \A i \in 1..Len(ret.out.calls) :
                  ret.out.calls[i] \notin {"getStealthPublicKey", "publicKeyToAddress"}

\* the tag differs and the digest is no valid scalar, so computing the stealth
\* point would have raised
C7_Witness ==
    /\ CheckTagRecomputed
    /\ CheckTag # CheckArgs.viewTag
    /\ ~ValidScalar(CheckDigest)
    /\ ret.out.ok /\ ret.out.val = FALSE

\* the last call recovered the private key of the current announcement
GenuineRecover ==
    /\ ret.op = "recover"
    /\ ann.ok
    /\ ret.args[1] = ann.key
    /\ ret.args[2] = ann.val.ephemeralPublicKey

\* C2: for every generated announcement, computeStealthPrivateKey returns a
\* scalar whose public key is the stealth point the generator used: the
\* recovered key loads as an account and its address is the generated
\* stealth address.
C2_RecoveryExact ==
    GenuineRecover
        => /\ ret.out.ok
           /\ privateKeyToAccount(ret.out.val).ok
           /\ privateKeyToAccount(ret.out.val).val = ann.val.stealthPublicKey

\* C8: a repeated call of generateStealthKeyFromSignature returns the bundle
\* the first call with that signature returned, whatever ran in between; the
\* spending key is the hash of bytes 1..32, the viewing key the hash of bytes
\* 33..64, and each public key is its private key times G.
C8_Deterministic ==
    (ret.op = "derive" /\ ret.out.err # SeedError)
        => LET signature == ret.args[1]
           IN  /\ signature \in DOMAIN derived
               /\ derived[signature] = ret.out
               /\ ret.out.ok =>
                    LET key == ret.out.val
                    IN  /\ Prefix0x \o SubSeq(signature, 3, 66) \in DOMAIN hashSeed
                        /\ Prefix0x \o SubSeq(signature, 67, 130) \in DOMAIN hashSeed
                        /\ key.spendingKey.privateKey
                             = hashSeed[Prefix0x \o SubSeq(signature, 3, 66)]
                        /\ key.viewingKey.privateKey
                             = hashSeed[Prefix0x \o SubSeq(signature, 67, 130)]
                        /\ ValidScalar(key.spendingKey.privateKey)
                        /\ ValidScalar(key.viewingKey.privateKey)
                        /\ key.spendingKey.publicKey
                             = toCompressed(SliceFrom(key.spendingKey.privateKey, 2))
                        /\ key.viewingKey.publicKey
                             = toCompressed(SliceFrom(key.viewingKey.privateKey, 2))

\* a repeated derivation, after a stealth address was generated for the first
C8_Witness ==
    /\ ret.op = "derive"
    /\ ret.out.ok
    /\ ann.ok
    /\ ann.key = ret.out.val
    /\ ret.out.val.spendingKey.privateKey # ret.out.val.viewingKey.privateKey

-----------------------------------------------------------------------------
(* Seed signatures of every length: generateStealthKeyFromSignature alone *)

\* 0x + 65 bytes in hex
SignatureChars == 2 + 2 * 65

\* bound on the length of the signature strings tried
MaxSigLen == 136

\* a signature body followed by surplus characters
LongBody(portion1, portion2, lastByte) ==
    portion1 \o portion2 \o lastByte \o Rep("c", MaxSigLen)

\* every prefix of a prefixed and of a prefix-less over-long signature; the
\* prefixes of 132 characters of the former are the well-formed signatures
SeedSignatures ==
    {SubSeq(Prefix0x \o LongBody(PortionA, PortionB, <<"1","b">>), 1, n) : n \in 0..MaxSigLen}
        \cup {SubSeq(LongBody(PortionA, PortionB, <<"1","b">>), 1, n) : n \in 0..MaxSigLen}
        \cup {Prefix0x \o PortionA \o PortionB \o <<"1","c">>,
              Prefix0x \o PortionB \o PortionA \o <<"1","b">>}

NextSeed ==
    \/ Derive(SeedSignatures)
    \/ Return

SpecSeed == Init /\ [][NextSeed]_vars

\* the signature is not 0x followed by 130 characters
Malformed(signature) ==
    \/ Len(signature) # SignatureChars
    \/ SubSeq(signature, 1, 2) # Prefix0x

\* prefix + first 64 + next 64 + last 2 characters is not the signature
Misassembled(signature) ==
    Prefix0x \o Slice(signature, 2, 66) \o Slice(signature, 66, 130)
        \o SliceFrom(signature, Len(signature) - 2) # signature

\* C6: a signature that is not 65 bytes behind 0x, or whose segments do not
\* re-assemble to it, fails with the seed error and yields no bundle.
C6_SeedIntegrity ==
    (ret.op = "derive" /\ (Malformed(ret.args[1]) \/ Misassembled(ret.args[1])))
        => /\ ~ret.out.ok
           /\ ret.out.err = SeedError
           /\ ret.args[1] \notin DOMAIN derived

\* an over-long signature was refused
C6_Witness ==
    /\ ret.op = "derive"
    /\ Len(ret.args[1]) > SignatureChars
    /\ SubSeq(ret.args[1], 1, 2) = Prefix0x
    /\ ret.out.err = SeedError

\* C10: accepted signatures that agree on their first 64 bytes yield the same
\* bundle, whatever their last byte.
C10_LastByteUnused ==
    \A s1 \in DOMAIN derived, s2 \in DOMAIN derived :
        (~Malformed(s1) /\ ~Malformed(s2) /\ SubSeq(s1, 1, 130) = SubSeq(s2, 1, 130))
            => derived[s1] = derived[s2]

\* two signatures differing only in the last byte were both derived into a bundle
C10_Witness ==
    \E s1 \in DOMAIN derived, s2 \in DOMAIN derived :
        /\ s1 # s2
        /\ SubSeq(s1, 1, 130) = SubSeq(s2, 1, 130)
        /\ derived[s1].ok
        /\ derived[s1] = derived[s2]

-----------------------------------------------------------------------------
(* Meta-address codec *)

\* 33-byte compressed public keys, as 0x + 66 hex characters
CodecKeys ==
    {toCompressed(SliceFrom(One32, 2)),
     toCompressed(SliceFrom(MidA32, 2)),
     Prefix0x \o <<"0","3">> \o SliceFrom(MidB32, 2),
     Prefix0x \o <<"0","3">> \o SliceFrom(OrderMinusOne32, 2)}

\* 0x + 66 bytes in hex
MetaChars == 2 + 2 * 66

\* bound on the length of the meta-address strings tried
MaxMetaLen == 138

\* every prefix of an over-long meta-address
CodecMetas ==
    {SubSeq(Prefix0x \o SliceFrom(MidA32, 2) \o SliceFrom(MidB32, 2) \o Rep("9", MaxMetaLen),
            1, n) : n \in 0..MaxMetaLen}

\* generateStealthMetaAddressFromKeys(spendingPublicKey, viewingPublicKey)
Encode ==
    /\ Idle
    /\ \E spendingPublicKey \in CodecKeys, viewingPublicKey \in CodecKeys :
        ret' = [op |-> "encode", args |-> <<spendingPublicKey, viewingPublicKey>>,
                out |-> Ok(generateStealthMetaAddressFromKeys(spendingPublicKey,
                                                              viewingPublicKey))]
    /\ UNCHANGED <<hashSeed, hashSecret, derived, bundle, ann>>

\* parseKeysFromStealthMetaAddress(stealthMeta) on any string
Parse ==
    /\ Idle
    /\ \E stealthMeta \in CodecMetas :
        ret' = [op |-> "parse", args |-> <<stealthMeta>>,
                out |-> Ok(parseKeysFromStealthMetaAddress(stealthMeta)), keys |-> <<>>]
    /\ UNCHANGED <<hashSeed, hashSecret, derived, bundle, ann>>

\* parseKeysFromStealthMetaAddress on the meta-address just encoded, as in main
ParseEncoded ==
    /\ ret.op = "encode"
    /\ ret' = [op |-> "parse", args |-> <<ret.out.val>>,
               out |-> Ok(parseKeysFromStealthMetaAddress(ret.out.val)), keys |-> ret.args]
    /\ UNCHANGED <<hashSeed, hashSecret, derived, bundle, ann>>

NextCodec ==
    \/ Encode
    \/ Parse
    \/ ParseEncoded
    \/ Return

SpecCodec == Init /\ [][NextCodec]_vars

\* C4: parsing the meta-address encoded from two compressed public keys
\* returns those two keys.
C4_RoundTrip ==
    (ret.op = "parse" /\ ret.keys # <<>>)
        => /\ ret.out.ok
           /\ ret.out.val.spendingPublicKey = ret.keys[1]
           /\ ret.out.val.viewingPublicKey = ret.keys[2]

\* a round trip of two different keys
C4_Witness ==
    /\ ret.op = "parse"
    /\ ret.keys # <<>>
    /\ ret.keys[1] # ret.keys[2]
    /\ ret.out.val.spendingPublicKey = ret.keys[1]
    /\ ret.out.val.viewingPublicKey = ret.keys[2]

\* C5: parseKeysFromStealthMetaAddress fails with InvalidMetaAddressLength on
\* every input that is not 0x + 132 hex characters, and returns keys only for
\* inputs of that length.
C5_RejectsWrongLength ==
    ret.op = "parse"
        => /\ Len(ret.args[1]) # MetaChars
                => (~ret.out.ok /\ ret.out.err = "InvalidMetaAddressLength")
           /\ ret.out.ok => Len(ret.args[1]) = MetaChars

-----------------------------------------------------------------------------
(* Key recovery over the whole 256-bit range: computeStealthPrivateKey alone *)

\* spending private keys and digests from both ends of 0 .. 2^256 - 1
ArithScalars ==
    {Zero32, One32, Two32, MidA32, MidB32, OrderMinusOne32, Order32, Max32}

\* a StealthKey object with spending private key a and viewing private key 1
ArithKey(a) ==
    [spendingKey |-> [publicKey  |-> toCompressed(SliceFrom(a, 2)), privateKey |-> a],
     viewingKey  |-> [publicKey  |-> toCompressed(SliceFrom(One32, 2)),
                      privateKey |-> One32]]

\* the stealth key is any such object and the digest of its shared secret with
\* OtherPoint is any of the scalars
InitArith ==
    /\ hashSeed = <<>>
    /\ derived = <<>>
    /\ ann = None
    /\ ret = [op |-> "idle", args |-> <<>>, out |-> None]
    /\ bundle \in {Ok(ArithKey(a)) : a \in ArithScalars}
    /\ hashSecret \in {(getSharedSecret(One32, OtherPoint).val :> h) : h \in ArithScalars}

NextArith ==
    \/ RecoverOn({OtherPoint, BadPoint})
    \/ Return

SpecArith == InitArith /\ [][NextArith]_vars

\* the arguments of the last computeStealthPrivateKey call
RecoverSecret == getSharedSecret(ret.args[1].viewingKey.privateKey, ret.args[2])

RecoverA == BigInt(ret.args[1].spendingKey.privateKey)

RecoverH == BigInt(hashSecret[RecoverSecret.val])

\* the result is 0x + exactly 64 hex characters naming (a + h) mod n
RecoveredExactly ==
    /\ ret.out.ok
    /\ Len(ret.out.val) = 66
    /\ SubSeq(ret.out.val, 1, 2) = Prefix0x
    /\ IsHex(SliceFrom(ret.out.val, 2))
    /\ BigLess(BigInt(ret.out.val), CurveOrder)
    /\ \E q \in {<<>>, CurveOrder, BigAdd(CurveOrder, CurveOrder)} :
           BigAdd(RecoverA, RecoverH) = BigAdd(BigInt(ret.out.val), q)

\* C9 as stated: for every a and h, computeStealthPrivateKey returns
\* (a + h) mod n as 0x + 64 hex characters, and never fails on inputs of the
\* right byte lengths.
C9_AsStated ==
    (ret.op = "recover" /\ Len(ret.args[2]) = 68
        /\ Len(ret.args[1].spendingKey.privateKey) = 66
        /\ Len(ret.args[1].viewingKey.privateKey) = 66)
        => RecoveredExactly

\* C9 amended: whenever the shared secret can be computed, the result is
\* (a + h) mod n as 0x + 64 hex characters, for every a and h; the call fails
\* only with the error getSharedSecret raised.
C9_Recovered ==
    ret.op = "recover"
        => IF RecoverSecret.ok
           THEN RecoveredExactly
           ELSE ~ret.out.ok /\ ret.out.err = RecoverSecret.err

\* a sum that wrapped around n and a result that needed padding
C9_Witness ==
    /\ ret.op = "recover"
    /\ RecoverSecret.ok
    /\ RecoveredExactly
    /\ ~BigLess(BigAdd(RecoverA, RecoverH), CurveOrder)
    /\ ret.out.val[3] = "0"

====
